---- MODULE Spec2Model ----
(***************************************************************************)
(* Greenwashing Litigation Dashboard (src/streamlit_app.py).               *)
(*                                                                         *)
(* Text is a sequence of one-character strings, so that lower(),           *)
(* replace(), the `in` substring test and the regular expression           *)
(* [\d.]+ are computed character by character.  A number is a decimal      *)
(* m * 10^e (record [m, e], m not divisible by 10 unless it is 0): the     *)
(* settlement values reach 10^9 and more.  Binary rounding of float        *)
(* products is not modelled.                                               *)
(***************************************************************************)
EXTENDS Integers, Sequences, FiniteSets, TLC

VARIABLES
    status_arg,     \* normalize_status: the argument of the call
    status_ret,     \* normalize_status: what the call returned
    amount_arg,     \* parse_settlement_amount: the argument of the call
    amount_ret,     \* parse_settlement_amount: what the call returned or raised
    top_arg,        \* the top-settlements ranking: the filtered frame it is made of
    top_ret,        \* the top-settlements ranking: the frame that is charted
    again,          \* the normalizer run a second time, on the table it returned
    csv,            \* the input file: whether it exists, and the table read_csv reads
    pc,             \* main: "start", "ready" (a run rendered the tabs), "stopped"
    cache,          \* st.cache_data: the table load_data returned
    df,             \* the frame named df when the last run ended
    message,        \* the st.error message main showed, "" if none
    session,        \* st.session_state['selected_case_idx']
    widgets,        \* the values of the keyed widgets
    market,         \* render_market_overview: what the last run computed
    explorer,       \* render_case_explorer: what the last run computed
    runs            \* the script runs so far

appvars == <<csv, pc, cache, df, message, session, widgets, market, explorer, runs>>

callvars == <<status_arg, status_ret, amount_arg, amount_ret, top_arg, top_ret, again>>

vars == <<status_arg, status_ret, amount_arg, amount_ret, top_arg, top_ret, again,
          csv, pc, cache, df, message, session, widgets, market, explorer, runs>>

(***************************************************************************)
(* Characters and text                                                     *)
(***************************************************************************)
UpperAlpha == <<"A", "B", "C", "D", "E", "F", "G", "H", "I", "J", "K", "L", "M",
                "N", "O", "P", "Q", "R", "S", "T", "U", "V", "W", "X", "Y", "Z">>

LowerAlpha == <<"a", "b", "c", "d", "e", "f", "g", "h", "i", "j", "k", "l", "m",
                "n", "o", "p", "q", "r", "s", "t", "u", "v", "w", "x", "y", "z">>

DigitChars == <<"0", "1", "2", "3", "4", "5", "6", "7", "8", "9">>

Range(s) == {s[i] : i \in DOMAIN s}

\* str.lower() on one character
LowerChar(c) ==
    IF \E i \in DOMAIN UpperAlpha : UpperAlpha[i] = c
    THEN LowerAlpha[CHOOSE i \in DOMAIN UpperAlpha : UpperAlpha[i] = c]
    ELSE c

\* str.lower()
Lower(s) == [i \in DOMAIN s |-> LowerChar(s[i])]

\* `sub in s`: sub occurs in s as a contiguous substring
Contains(s, sub) ==
    \E i \in 0..(Len(s) - Len(sub)) :
        \A j \in 1..Len(sub) : s[i + j] = sub[j]

\* s.replace(ch, '') for a one-character ch
RemoveChar(s, ch) == SelectSeq(s, LAMBDA c : c # ch)

IsDigit(c) == c \in Range(DigitChars)

DigitValue(c) == (CHOOSE i \in DOMAIN DigitChars : DigitChars[i] = c) - 1

RECURSIVE Concat(_)
\* ''.join(parts)
Concat(parts) ==
    IF parts = <<>> THEN <<>> ELSE Head(parts) \o Concat(Tail(parts))

RECURSIVE JoinWords(_)
\* ' '.join(words)
JoinWords(words) ==
    IF words = <<>> THEN <<>>
    ELSE IF Len(words) = 1 THEN Head(words)
    ELSE Head(words) \o <<" ">> \o JoinWords(Tail(words))

\* the sequences over S of length at most n
SeqsUpTo(S, n) == UNION {[1..k -> S] : k \in 0..n}

(***************************************************************************)
(* Numbers                                                                 *)
(***************************************************************************)
RECURSIVE Pow10(_)
Pow10(k) == IF k = 0 THEN 1 ELSE 10 * Pow10(k - 1)

RECURSIVE Normal(_, _)
\* the decimal m * 10^e without trailing zeros in m
Normal(m, e) ==
    IF m = 0 THEN [m |-> 0, e |-> 0]
    ELSE IF m % 10 = 0 THEN Normal(m \div 10, e + 1)
    ELSE [m |-> m, e |-> e]

Zero == Normal(0, 0)

\* x * 10^k
TimesPow10(x, k) == Normal(x.m, x.e + k)

RECURSIVE DigitsValue(_)
\* the natural number a run of digits writes
DigitsValue(ds) ==
    IF ds = <<>> THEN 0
    ELSE 10 * DigitsValue(SubSeq(ds, 1, Len(ds) - 1)) + DigitValue(ds[Len(ds)])

(***************************************************************************)
(* normalize_status                                                        *)
(***************************************************************************)
kw_settled == <<"s", "e", "t", "t", "l", "e", "d">>
kw_pending == <<"p", "e", "n", "d", "i", "n", "g">>
kw_dismissed == <<"d", "i", "s", "m", "i", "s", "s", "e", "d">>
kw_without == <<"w", "i", "t", "h", "o", "u", "t">>
kw_voluntarily == <<"v", "o", "l", "u", "n", "t", "a", "r", "i", "l", "y">>
kw_motion == <<"m", "o", "t", "i", "o", "n">>
kw_denied == <<"d", "e", "n", "i", "e", "d">>
kw_granted == <<"g", "r", "a", "n", "t", "e", "d">>
kw_appeal == <<"a", "p", "p", "e", "a", "l">>
kw_class == <<"c", "l", "a", "s", "s">>
kw_certified == <<"c", "e", "r", "t", "i", "f", "i", "e", "d">>
kw_unknown == <<"u", "n", "k", "n", "o", "w", "n">>
kw_nan == <<"n", "a", "n">>

\* the dismissed rules tested in the other order: plain Dismissed first
DismissedBranchPlainFirst(status_lower) == "Dismissed"

\* the two `'dismissed' in status_lower` branches, reached when the text
\* contains "dismissed"
DismissedBranch(status_lower) ==
    IF Contains(status_lower, kw_without)
    THEN "Dismissed (without prejudice)"
    ELSE "Dismissed"

normalize_status(status) ==
    LET status_lower == Lower(status)
    IN  IF Contains(status_lower, kw_settled) THEN "Settled"
        ELSE IF Contains(status_lower, kw_pending) THEN "Pending"
        ELSE IF Contains(status_lower, kw_dismissed) THEN DismissedBranch(status_lower)
        ELSE IF Contains(status_lower, kw_voluntarily) THEN "Voluntarily Dismissed"
        ELSE IF Contains(status_lower, kw_motion) /\ Contains(status_lower, kw_denied)
            THEN "MTD Denied"
        ELSE IF Contains(status_lower, kw_motion) /\ Contains(status_lower, kw_granted)
            THEN "MTD Granted"
        ELSE IF Contains(status_lower, kw_appeal) THEN "On Appeal"
        ELSE IF Contains(status_lower, kw_class) /\ Contains(status_lower, kw_certified)
            THEN "Class Certified"
        ELSE IF status_lower = <<>> \/ status_lower = kw_nan
                \/ Contains(status_lower, kw_unknown)
            THEN "Unknown"
        ELSE "Other"

(***************************************************************************)
(* parse_settlement_amount                                                 *)
(***************************************************************************)
kw_billion == <<"b", "i", "l", "l", "i", "o", "n">>
kw_million == <<"m", "i", "l", "l", "i", "o", "n">>

BillionExp == 9
MillionExp == 6

\* the character class [\d.]
InDigitDotClass(c) == IsDigit(c) \/ c = "."

\* re.search(r'([\d.]+)', s): the leftmost match, taken greedily.
\* found = FALSE stands for None.
SearchDigitDotRun(s) ==
    IF \E i \in DOMAIN s : InDigitDotClass(s[i])
    THEN LET start == CHOOSE i \in DOMAIN s :
                          /\ InDigitDotClass(s[i])
                          /\ \A j \in 1..(i - 1) : ~InDigitDotClass(s[j])
             stop  == CHOOSE k \in start..Len(s) :
                          /\ \A j \in start..k : InDigitDotClass(s[j])
                          /\ (k = Len(s) \/ ~InDigitDotClass(s[k + 1]))
         IN  [found |-> TRUE, group |-> SubSeq(s, start, stop)]
    ELSE [found |-> FALSE, group |-> <<>>]

DotCount(run) == Cardinality({i \in DOMAIN run : run[i] = "."})

\* float(text) accepts a run of digits and dots that has a digit and at most
\* one dot ("5", "5.", ".5", "1.5"); on any other run it raises ValueError.
FloatAccepts(run) == DotCount(run) <= 1 /\ \E i \in DOMAIN run : IsDigit(run[i])

\* the value float(text) returns for a run it accepts
FloatValue(run) ==
    LET digits   == SelectSeq(run, IsDigit)
        decimals == IF DotCount(run) = 0 THEN 0
                    ELSE Len(run) - (CHOOSE i \in DOMAIN run : run[i] = ".")
    IN  Normal(DigitsValue(digits), 0 - decimals)

Returned(v) == [exc |-> "none", val |-> v]
Raised(e) == [exc |-> e, val |-> Zero]
NotCalled == [exc |-> "not called", val |-> Zero]

\* float(match.group(1)) * 10^k
FloatTimes(run, k) ==
    IF FloatAccepts(run) THEN Returned(TimesPow10(FloatValue(run), k))
    ELSE Raised("ValueError")

\* amount_str.lower().replace(',', '').replace('$', '')
CleanAmount(amount_str) == RemoveChar(RemoveChar(Lower(amount_str), ","), "$")

parse_settlement_amount(amount_str) ==
    IF amount_str = <<>> \/ amount_str = kw_nan THEN Returned(Zero)
    ELSE LET s     == CleanAmount(amount_str)
             match == SearchDigitDotRun(s)
         IN  IF Contains(s, kw_billion)
             THEN IF match.found THEN FloatTimes(match.group, BillionExp)
                  ELSE Returned(Zero)
             ELSE IF Contains(s, kw_million)
             THEN IF match.found THEN FloatTimes(match.group, MillionExp)
                  ELSE Returned(Zero)
             ELSE IF match.found THEN FloatTimes(match.group, 0)
                  ELSE Returned(Zero)


(***************************************************************************)
(* Cells, rows and frames                                                  *)
(*                                                                         *)
(* A cell of a frame is NaN, a text or a number.  A row is its index label *)
(* and a function from column names to values.  A frame is its set of      *)
(* columns and its rows in order.                                          *)
(***************************************************************************)
NaN == [t |-> "nan", s |-> <<>>, n |-> 0]
Str(x) == [t |-> "str", s |-> x, n |-> 0]
Num(k) == [t |-> "num", s |-> <<>>, n |-> k]

\* the members of text_cols the model follows; "summary" stands for the
\* columns no query reads
text_cols == {"case_name", "quote", "claim_type", "sub_category", "jurisdiction",
              "current_status", "summary", "settlement_amount",
              "industry_sector", "Product/Company"}

EmptyFrame == [columns |-> {}, rows |-> <<>>]

\* bool(value) of a cell: NaN is a float other than 0.0, so it is true
Truthy(cell) ==
    CASE cell.t = "nan" -> TRUE
      [] cell.t = "str" -> cell.s # <<>>
      [] cell.t = "num" -> cell.n # 0

RECURSIVE IntText(_)
\* str(n) of a natural number
IntText(n) ==
    IF n < 10 THEN <<DigitChars[n + 1]>>
    ELSE IntText(n \div 10) \o <<DigitChars[(n % 10) + 1]>>

\* pd.read_csv: the rows get the labels 0, 1, 2, ...  (the table in csv holds
\* the values read_csv parsed: NaN for an empty field, a number in a column
\* of numbers, a text otherwise)
ReadCsv(table) ==
    [columns |-> table.columns,
     rows    |-> [i \in DOMAIN table.rows |-> [idx |-> i - 1, v |-> table.rows[i]]]]

\* a column of numbers that holds a NaN is a float64 column
IsFloatColumn(frame, col) == \E i \in DOMAIN frame.rows : frame.rows[i].v[col].t = "nan"

\* the coercion that writes a text as Python writes it, between quotes
FillnaAstypeRepr(cell, float_column) ==
    IF cell.t = "str" THEN Str(<<"'">> \o cell.s \o <<"'">>) ELSE Str(<<>>)

\* the coercion left out: the cell stays as read
FillnaAstypeStrSkipped(cell, float_column) == cell

\* df[col].fillna('').astype(str) on one cell
FillnaAstypeStr(cell, float_column) ==
    CASE cell.t = "nan" -> Str(<<>>)
      [] cell.t = "str" -> cell
      [] cell.t = "num" ->
            Str(IntText(cell.n) \o (IF float_column THEN <<".", "0">> ELSE <<>>))

\* the loop over text_cols
CoerceTextCols(frame) ==
    LET coerce(row) ==
            [c \in DOMAIN row |->
                IF c \in text_cols
                THEN FillnaAstypeStr(row[c], IsFloatColumn(frame, c))
                ELSE row[c]]
    IN  [columns |-> frame.columns,
         rows    |-> [i \in DOMAIN frame.rows |->
                         [idx |-> frame.rows[i].idx, v |-> coerce(frame.rows[i].v)]]]

\* the fallback forgotten: the case name whatever it is
display_name_no_fallback(x) == x["case_name"]

\* the lambda of df.apply(..., axis=1)
display_name(x) ==
    IF Truthy(x["case_name"]) /\ x["case_name"] # Str(<<>>)
    THEN x["case_name"]
    ELSE x["Product/Company"]

\* frame[col] = values: the column col added, or replaced if the frame has
\* it, values[i] the value of the i-th row
WithColumn(frame, col, values) ==
    [columns |-> frame.columns \cup {col},
     rows    |-> [i \in DOMAIN frame.rows |->
                     [idx |-> frame.rows[i].idx,
                      v   |-> (col :> values[i]) @@ frame.rows[i].v]]]

\* the statements of load_data after read_csv, on the frame df: the frames
\* they can leave and the exceptions they can raise.
\* On a frame without rows df.apply(axis=1) yields a frame, not a column, and
\* assigning it to df['display_name'] raises ValueError or not with the
\* pandas release: both outcomes are kept.
Normalize(frame) ==
    LET coerced == CoerceTextCols(frame)
        named   == WithColumn(coerced, "display_name",
                              [i \in DOMAIN coerced.rows |-> display_name(coerced.rows[i].v)])
        amount(x) == parse_settlement_amount(x["settlement_amount"].s)
        parsed  == WithColumn(named, "settlement_numeric",
                              [i \in DOMAIN named.rows |-> amount(named.rows[i].v).val])
        grouped == WithColumn(parsed, "status_group",
                              [i \in DOMAIN parsed.rows |->
                                  normalize_status(parsed.rows[i].v["current_status"].s)])
    IN  IF \E i \in DOMAIN coerced.rows : amount(coerced.rows[i].v).exc # "none"
        THEN {[exc |-> "ValueError", frame |-> EmptyFrame]}
        ELSE IF frame.rows = <<>>
        THEN {[exc |-> "ValueError", frame |-> EmptyFrame],
              [exc |-> "none", frame |-> grouped]}
        ELSE {[exc |-> "none", frame |-> grouped]}

\* load_data: read_csv, then the normalization of the frame read
load_data(table) == Normalize(ReadCsv(table))

\* the second normalization before it is run
NotNormalizedAgain == [called |-> FALSE, exc |-> "none", frame |-> EmptyFrame]

(***************************************************************************)
(* Comparisons pandas makes when it sorts and ranks                        *)
(***************************************************************************)
\* the characters of the model's texts in code point order
CodePointOrder ==
    <<" ", "$", "%", "(", ")", ",", "-", ".", "/">> \o DigitChars \o UpperAlpha \o LowerAlpha

CodePoint(c) == CHOOSE i \in DOMAIN CodePointOrder : CodePointOrder[i] = c

\* a < b on str
TextLess(a, b) ==
    \E k \in 1..Len(b) :
        /\ k <= Len(a) + 1
        /\ \A j \in 1..(k - 1) : a[j] = b[j]
        /\ (k = Len(a) + 1 \/ CodePoint(a[k]) < CodePoint(b[k]))

RECURSIVE NumDigits(_)
NumDigits(m) == IF m < 10 THEN 1 ELSE 1 + NumDigits(m \div 10)

\* a < b on the decimals m * 10^e
NumLess(a, b) ==
    IF a.m = 0 THEN b.m > 0
    ELSE IF b.m = 0 THEN FALSE
    ELSE LET ma == NumDigits(a.m) + a.e
             mb == NumDigits(b.m) + b.e
             e  == IF a.e < b.e THEN a.e ELSE b.e
         IN  IF ma # mb THEN ma < mb
             ELSE a.m * Pow10(a.e - e) < b.m * Pow10(b.e - e)

\* whether the value of column `by` is missing in row x
IsNaNKey(x, by) == by = "Year" /\ x[by].t = "nan"

\* x[by] < y[by] for the three sort columns, on rows whose key is not NaN
KeyLess(x, y, by) ==
    CASE by = "Year"               -> x[by].n < y[by].n
      [] by = "display_name"       -> TextLess(x[by].s, y[by].s)
      [] by = "settlement_numeric" -> NumLess(x[by], y[by])

IndexPermutations(n) == {p \in [1..n -> 1..n] : \A i, j \in 1..n : p[i] = p[j] => i = j}

\* frame.sort_values(by, ascending=...): kind='quicksort' is not a stable
\* sort, so rows with equal keys may come out in any order; rows whose key
\* is NaN go last (na_position='last') in the order they had.
sort_values(frame, by, ascending) ==
    LET n == Len(frame.rows)
        key(i) == frame.rows[i].v
        ordered(p) ==
            \A i, j \in 1..n : i < j =>
                /\ IsNaNKey(key(p[i]), by) => IsNaNKey(key(p[j]), by)
                /\ (IsNaNKey(key(p[i]), by) /\ IsNaNKey(key(p[j]), by)) => p[i] < p[j]
                /\ (~IsNaNKey(key(p[i]), by) /\ ~IsNaNKey(key(p[j]), by)) =>
                       IF ascending THEN ~KeyLess(key(p[j]), key(p[i]), by)
                       ELSE ~KeyLess(key(p[i]), key(p[j]), by)
    IN  {[columns |-> frame.columns, rows |-> [i \in 1..n |-> frame.rows[p[i]]]] :
            p \in {q \in IndexPermutations(n) : ordered(q)}}

TopN == 10

\* frame.nlargest(n, by) with keep='first': the n rows with the largest
\* values, largest first, equal values in the order they had
nlargest(frame, n, by) ==
    LET m == Len(frame.rows)
        before(i, j) ==
            \/ NumLess(frame.rows[j].v[by], frame.rows[i].v[by])
            \/ (frame.rows[j].v[by] = frame.rows[i].v[by] /\ i < j)
        rank(i) == 1 + Cardinality({j \in 1..m : before(j, i)})
        k == IF m < n THEN m ELSE n
    IN  [columns |-> frame.columns,
         rows    |-> [r \in 1..k |-> frame.rows[CHOOSE i \in 1..m : rank(i) = r]]]

(***************************************************************************)
(* Filters                                                                 *)
(***************************************************************************)
\* frame[mask]: a new frame of the rows the mask keeps, labels kept
BoolIndex(frame, mask) ==
    LET kept[i \in 0..Len(frame.rows)] ==
            IF i = 0 THEN <<>>
            ELSE IF mask[i] THEN Append(kept[i - 1], frame.rows[i]) ELSE kept[i - 1]
    IN  [columns |-> frame.columns, rows |-> kept[Len(frame.rows)]]

\* the mask written so that a missing Year passes: ~(Year < lo) & ~(Year > hi)
InRangeNaNPasses(x, col, lo, hi) ==
    x[col].t = "nan" \/ (lo <= x[col].n /\ x[col].n <= hi)

\* (frame[col] >= lo) & (frame[col] <= hi): a comparison with NaN is False
InRange(x, col, lo, hi) ==
    x[col].t = "num" /\ lo <= x[col].n /\ x[col].n <= hi

\* re.compile(pat) for the patterns of the model, which hold letters, '.' and
\* '(': a '(' that is never closed raises re.error
RegexCompiles(pat) == \A i \in DOMAIN pat : pat[i] # "("

\* re.search(pat, text) is not None, for a pattern that compiles: '.' matches
\* any one character, a letter matches itself
RegexSearch(text, pat) ==
    \E i \in 0..(Len(text) - Len(pat)) :
        \A j \in 1..Len(pat) : pat[j] = "." \/ pat[j] = text[i + j]

\* one row of frame[col].str.lower().str.contains(keyword.lower(), na=False):
\* regex=True is the default of str.contains
KeywordMask(x, col, keyword) == RegexSearch(Lower(x[col].s), Lower(keyword))

RangeFilter(col, lo, hi) ==
    [kind |-> "range", col |-> col, lo |-> lo, hi |-> hi, value |-> NaN]
ExactFilter(col, value) ==
    [kind |-> "exact", col |-> col, lo |-> 0, hi |-> 0, value |-> value]
KeywordFilter(col, keyword) ==
    [kind |-> "keyword", col |-> col, lo |-> 0, hi |-> 0, value |-> Str(keyword)]

\* one statement filtered_df = filtered_df[mask]; res is the frame so far, or
\* the exception raised so far
ApplyFilter(res, f) ==
    IF res.exc # "none" THEN res
    ELSE LET src == res.frame
         IN  CASE f.kind = "range" ->
                    [exc   |-> "none",
                     frame |-> BoolIndex(src, [i \in DOMAIN src.rows |->
                                              InRange(src.rows[i].v, f.col, f.lo, f.hi)])]
               [] f.kind = "exact" ->
                    [exc   |-> "none",
                     frame |-> BoolIndex(src, [i \in DOMAIN src.rows |->
                                              src.rows[i].v[f.col] = f.value])]
               [] f.kind = "keyword" ->
                    IF RegexCompiles(Lower(f.value.s))
                    THEN [exc   |-> "none",
                          frame |-> BoolIndex(src, [i \in DOMAIN src.rows |->
                                    KeywordMask(src.rows[i].v, f.col, f.value.s)])]
                    ELSE [exc |-> "re.error", frame |-> EmptyFrame]

RECURSIVE ApplyFilters(_, _)
\* the filter statements one after the other
ApplyFilters(res, fs) ==
    IF fs = <<>> THEN res
    ELSE ApplyFilters(ApplyFilter(res, Head(fs)), Tail(fs))

\* df.copy()
CopyFrame(frame) == [exc |-> "none", frame |-> frame]

(***************************************************************************)
(* Widgets and session state                                               *)
(***************************************************************************)
All == <<"A", "l", "l">>

None == [some |-> FALSE, v |-> 0]
Some(v) == [some |-> TRUE, v |-> v]

NoRange == [some |-> FALSE, lo |-> 0, hi |-> 0]
YearRange(lo, hi) == [some |-> TRUE, lo |-> lo, hi |-> hi]

SetMin(S) == CHOOSE x \in S : \A y \in S : x <= y
SetMax(S) == CHOOSE x \in S : \A y \in S : y <= x

\* [x for x in df['Year'].dropna().unique() if x]
Years(frame) ==
    {frame.rows[i].v["Year"].n :
        i \in {j \in DOMAIN frame.rows : Truthy(frame.rows[j].v["Year"])
                                         /\ frame.rows[j].v["Year"].t = "num"}}

\* [x for x in frame[col].unique() if x and x != '']
DistinctTexts(frame, col) ==
    {frame.rows[i].v[col].s : i \in DOMAIN frame.rows} \ {<<>>}

DistinctStatusGroups(frame) ==
    {frame.rows[i].v["status_group"] : i \in DOMAIN frame.rows}

\* the options of the sub-category selectbox, given the selected claim type
SubCategoryOptions(frame, selected_claim) ==
    {All} \cup
    (IF selected_claim # All
     THEN DistinctTexts(BoolIndex(frame, [i \in DOMAIN frame.rows |->
                         frame.rows[i].v["claim_type"] = Str(selected_claim)]),
                        "sub_category")
     ELSE DistinctTexts(frame, "sub_category"))

sort_options == {"Year (newest)", "Year (oldest)", "Case Name (A-Z)", "Settlement (highest)"}

\* the value each widget has before the user touches it
DefaultWidgets(frame) ==
    [market_year       |-> IF Years(frame) = {} THEN NoRange
                           ELSE YearRange(SetMin(Years(frame)), SetMax(Years(frame))),
     market_claim      |-> All,
     market_industry   |-> All,
     case_keyword      |-> <<>>,
     case_claim        |-> All,
     case_sub          |-> All,
     case_status       |-> "All",
     case_jurisdiction |-> All,
     case_sort         |-> "Year (newest)"]

NoWidgets == DefaultWidgets(EmptyFrame)

(***************************************************************************)
(* render_market_overview                                                  *)
(***************************************************************************)
\* the filter statements of the market overview that are active, in the
\* order of the code
MarketFilters(w) ==
    (IF w.market_year.some
     THEN <<RangeFilter("Year", w.market_year.lo, w.market_year.hi)>> ELSE <<>>)
    \o (IF w.market_claim # All
        THEN <<ExactFilter("claim_type", Str(w.market_claim))>> ELSE <<>>)
    \o (IF w.market_industry # All
        THEN <<ExactFilter("industry_sector", Str(w.market_industry))>> ELSE <<>>)

\* the text of the bar label: the format applied and the amount it formats
\* (the digits the format writes are not followed)
settlement_display(x) ==
    [fmt |-> IF ~NumLess(x["settlement_numeric"], Normal(1, MillionExp))
             THEN "${x/1_000_000:.1f}M" ELSE "${x:,.0f}",
     x   |-> x["settlement_numeric"]]

\* the column assigned on df instead of settlements_df
AddSettlementDisplayToDf(env) ==
    IF Len(env.settlements_df.rows) > 0
    THEN [env EXCEPT !.df =
             WithColumn(@, "settlement_display",
                        [i \in DOMAIN env.df.rows |-> settlement_display(env.df.rows[i].v)])]
    ELSE env

\* settlements_df['settlement_display'] = ...: the one assignment into an
\* existing frame.  env gives the frame each name is bound to.
AddSettlementDisplay(env) ==
    IF Len(env.settlements_df.rows) > 0
    THEN [env EXCEPT !.settlements_df =
             WithColumn(@, "settlement_display",
                        [i \in DOMAIN env.settlements_df.rows |->
                            settlement_display(env.settlements_df.rows[i].v)])]
    ELSE env

\* filtered_df['settlement_numeric'] > 0
PositiveSettlement(x) == NumLess(Zero, x["settlement_numeric"])

\* the ranking made of every record, those without settlement included
TopSettlementsOfAll(filtered_df) == nlargest(filtered_df, TopN, "settlement_numeric")

\* filtered_df[filtered_df['settlement_numeric'] > 0].nlargest(10, 'settlement_numeric')
TopSettlements(filtered_df) ==
    nlargest(BoolIndex(filtered_df, [i \in DOMAIN filtered_df.rows |->
                                        PositiveSettlement(filtered_df.rows[i].v)]),
             TopN, "settlement_numeric")

\* frame[col].value_counts(): the number of rows per value that occurs in
\* the column (a value that does not occur gets no entry; status_group, the
\* column counted, holds no NaN to drop)
value_counts(frame, col) ==
    [g \in {frame.rows[i].v[col] : i \in DOMAIN frame.rows} |->
        Cardinality({i \in DOMAIN frame.rows : frame.rows[i].v[col] = g})]

\* the counts taken on the whole table df
StatusCountsOfDf(frame, filtered_df) == value_counts(frame, "status_group")

\* filtered_df['status_group'].value_counts(), of "Cases by Status" and of
\* the "By Status" summary
StatusCounts(frame, filtered_df) == value_counts(filtered_df, "status_group")

\* the frames df, filtered_df and settlements_df name when the function ends,
\* and the status counts it charted
render_market_overview(frame, w) ==
    LET filtered_df == ApplyFilters(CopyFrame(frame), MarketFilters(w)).frame
    IN  AddSettlementDisplay(
            [df             |-> frame,
             filtered_df    |-> filtered_df,
             status_data    |-> StatusCounts(frame, filtered_df),
             settlements_df |-> TopSettlements(filtered_df)])

\* the ranking before it is computed
NotRanked == [called |-> FALSE, frame |-> EmptyFrame]

NoMarket ==
    [df |-> EmptyFrame, filtered_df |-> EmptyFrame, status_data |-> <<>>,
     settlements_df |-> EmptyFrame]

(***************************************************************************)
(* render_case_explorer                                                    *)
(***************************************************************************)
\* the filter statements of the case explorer that are active, in the order
\* of the code
ExplorerFilters(w) ==
    (IF w.case_keyword # <<>> THEN <<KeywordFilter("quote", w.case_keyword)>> ELSE <<>>)
    \o (IF w.case_claim # All
        THEN <<ExactFilter("claim_type", Str(w.case_claim))>> ELSE <<>>)
    \o (IF w.case_sub # All
        THEN <<ExactFilter("sub_category", Str(w.case_sub))>> ELSE <<>>)
    \o (IF w.case_status # "All"
        THEN <<ExactFilter("status_group", w.case_status)>> ELSE <<>>)
    \o (IF w.case_jurisdiction # All
        THEN <<ExactFilter("jurisdiction", Str(w.case_jurisdiction))>> ELSE <<>>)

\* the if/elif chain on sort_by
SortBy(frame, sort_by) ==
    CASE sort_by = "Year (newest)"        -> sort_values(frame, "Year", FALSE)
      [] sort_by = "Year (oldest)"        -> sort_values(frame, "Year", TRUE)
      [] sort_by = "Case Name (A-Z)"      -> sort_values(frame, "display_name", TRUE)
      [] sort_by = "Settlement (highest)" -> sort_values(frame, "settlement_numeric", FALSE)

\* the columns the function reads whatever the widgets hold: df[col] on a
\* column the table does not have raises KeyError
ExplorerColumns == {"claim_type", "sub_category", "status_group", "jurisdiction"}

\* no record: what the detail view shows while the list is on the page
NoRow == [idx |-> -1, v |-> <<>>]

\* df.loc[case_idx] in render_case_detail: the row of df with that label
Loc(frame, case_idx) ==
    IF \E i \in DOMAIN frame.rows : frame.rows[i].idx = case_idx
    THEN CHOOSE r \in Range(frame.rows) : r.idx = case_idx
    ELSE NoRow

\* what the function can leave on the page: the filtered and sorted frame with
\* the case list or the detail view of a record, or the exception a column
\* lookup or a filter raised
render_case_explorer(frame, w, selected_case_idx) ==
    LET res == ApplyFilters(CopyFrame(frame), ExplorerFilters(w))
    IN  IF ~(ExplorerColumns \subseteq frame.columns)
        THEN {[exc |-> "KeyError", filtered_df |-> EmptyFrame, view |-> "exception",
               row |-> NoRow]}
        ELSE IF res.exc # "none"
        THEN {[exc |-> res.exc, filtered_df |-> EmptyFrame, view |-> "exception",
               row |-> NoRow]}
        ELSE {[exc         |-> "none",
               filtered_df |-> sorted,
               view        |-> IF selected_case_idx.some THEN "detail" ELSE "list",
               row         |-> IF selected_case_idx.some
                               THEN Loc(frame, selected_case_idx.v) ELSE NoRow] :
                 sorted \in SortBy(res.frame, w.case_sort)}

NoExplorer == [exc |-> "none", filtered_df |-> EmptyFrame, view |-> "none", row |-> NoRow]

(***************************************************************************)
(* main: one run of the script                                             *)
(***************************************************************************)
MaxRuns == 3

\* the tabs rendered on the table load_data returned: render_market_overview,
\* then render_case_explorer on the same df
RenderTabs(frame, w, selected_case_idx) ==
    LET env == render_market_overview(frame, w)
    IN  \E ex \in render_case_explorer(env.df, w, selected_case_idx) :
            /\ pc' = "ready"
            /\ message' = ""
            /\ df' = env.df
            /\ market' = env
            /\ explorer' = ex
            /\ widgets' = w
            /\ session' = selected_case_idx

\* the message shown and the script carried on
ShowErrorAndGoOn(text) ==
    /\ pc' = "ready"
    /\ message' = text
    /\ UNCHANGED <<cache, df, market, explorer, widgets, session>>

\* st.error(...) and st.stop(): nothing below the load is rendered
StopWith(text) ==
    /\ pc' = "stopped"
    /\ message' = text
    /\ UNCHANGED <<cache, df, market, explorer, widgets, session>>

\* the first run of main(): the session state is initialised, the file is
\* looked up and loaded, the two tabs are rendered with every widget at its
\* default
FirstRun ==
    /\ pc = "start"
    /\ runs' = runs + 1
    /\ UNCHANGED csv
    /\ UNCHANGED callvars
    /\ IF ~csv.exists
       THEN StopWith("Could not find the file")
       ELSE \E r \in load_data(csv) :
                IF r.exc # "none"
                THEN StopWith("Error loading data")
                ELSE /\ cache' = r.frame
                     /\ RenderTabs(r.frame, DefaultWidgets(r.frame), None)

\* a later run: load_data answers from st.cache_data with a copy of the
\* table it returned, the widgets hold the values w
Rerun(w, selected_case_idx) ==
    /\ pc = "ready"
    /\ runs < MaxRuns
    /\ runs' = runs + 1
    /\ UNCHANGED <<csv, cache>>
    /\ UNCHANGED callvars
    /\ RenderTabs(cache, w, selected_case_idx)

\* the user moves the "Year Range" slider
SetMarketYear ==
    /\ pc = "ready"
    /\ widgets.market_year.some
    /\ \E lo, hi \in SetMin(Years(cache))..SetMax(Years(cache)) :
           /\ lo <= hi
           /\ YearRange(lo, hi) # widgets.market_year
           /\ Rerun([widgets EXCEPT !.market_year = YearRange(lo, hi)], session)

\* the user picks a "Claim Type" in the market overview
SetMarketClaim ==
    /\ pc = "ready"
    /\ \E c \in ({All} \cup DistinctTexts(cache, "claim_type")) \ {widgets.market_claim} :
           Rerun([widgets EXCEPT !.market_claim = c], session)

\* the user picks an "Industry Sector"
SetMarketIndustry ==
    /\ pc = "ready"
    /\ \E c \in ({All} \cup DistinctTexts(cache, "industry_sector"))
                    \ {widgets.market_industry} :
           Rerun([widgets EXCEPT !.market_industry = c], session)

\* the texts the user types: letters of either case, and the characters '.'
\* and '(' that a regular expression reads as operators
Keywords == {<<>>, <<"B">>, <<".">>, <<"(">>}

\* the user types in "Search in quotes"
TypeKeyword ==
    /\ pc = "ready"
    /\ \E k \in Keywords \ {widgets.case_keyword} :
           Rerun([widgets EXCEPT !.case_keyword = k], session)

\* the user picks a "Claim Type" in the case explorer.  The sub-category
\* selectbox is rebuilt from the new claim type: when its options change it
\* keeps its value only if the value is still offered, and only in Streamlit
\* releases that identify a widget by its key alone.
SetCaseClaim ==
    /\ pc = "ready"
    /\ \E c \in ({All} \cup DistinctTexts(cache, "claim_type")) \ {widgets.case_claim} :
           IF "sub_category" \in cache.columns
           THEN LET old == SubCategoryOptions(cache, widgets.case_claim)
                    new == SubCategoryOptions(cache, c)
                IN  \E s \in IF new = old THEN {widgets.case_sub}
                             ELSE {All} \cup ({widgets.case_sub} \cap new) :
                        Rerun([widgets EXCEPT !.case_claim = c, !.case_sub = s], session)
           ELSE Rerun([widgets EXCEPT !.case_claim = c], session)

\* the user picks a "Sub-Category".  This selectbox and the ones after it are
\* on the page only if the run got as far as them: the lookup of a column the
\* table lacks ends the run before.
SetCaseSub ==
    /\ pc = "ready"
    /\ explorer.exc # "KeyError"
    /\ \E s \in SubCategoryOptions(cache, widgets.case_claim) \ {widgets.case_sub} :
           Rerun([widgets EXCEPT !.case_sub = s], session)

\* the user picks a "Status"
SetCaseStatus ==
    /\ pc = "ready"
    /\ explorer.exc # "KeyError"
    /\ \E s \in ({"All"} \cup DistinctStatusGroups(cache)) \ {widgets.case_status} :
           Rerun([widgets EXCEPT !.case_status = s], session)

\* the user picks a "Jurisdiction"
SetCaseJurisdiction ==
    /\ pc = "ready"
    /\ explorer.exc # "KeyError"
    /\ \E j \in ({All} \cup DistinctTexts(cache, "jurisdiction"))
                    \ {widgets.case_jurisdiction} :
           Rerun([widgets EXCEPT !.case_jurisdiction = j], session)

\* the user picks a "Sort by"
SetCaseSort ==
    /\ pc = "ready"
    /\ explorer.exc # "KeyError"
    /\ \E s \in sort_options \ {widgets.case_sort} :
           Rerun([widgets EXCEPT !.case_sort = s], session)

\* the user clicks the button of a case in the list: the handler stores the
\* row label and calls st.rerun()
ClickCase ==
    /\ pc = "ready"
    /\ explorer.view = "list"
    /\ \E i \in DOMAIN explorer.filtered_df.rows :
           Rerun(widgets, Some(explorer.filtered_df.rows[i].idx))

\* the user clicks "Back to Case List" in the detail view
ClickBack ==
    /\ pc = "ready"
    /\ explorer.view = "detail"
    /\ Rerun(widgets, None)

(***************************************************************************)
(* The texts the two functions are called on                               *)
(***************************************************************************)
MaxStatusWords == 3
MaxAmountTokens == 4

StatusWords == {
    <<"S", "e", "t", "t", "l", "e", "d">>,
    kw_pending,
    <<"D", "i", "s", "m", "i", "s", "s", "e", "d">>,
    kw_without,
    kw_voluntarily,
    <<"M", "o", "t", "i", "o", "n">>,
    kw_denied,
    kw_granted,
    kw_appeal,
    kw_class,
    kw_certified,
    <<"U", "N", "K", "N", "O", "W", "N">>,
    kw_nan,
    <<"S", "t", "a", "y", "e", "d">>,
    <<"a", "r", "b", "i", "t", "r", "a", "t", "i", "o", "n">>,
    <<"p", "r", "e", "j", "u", "d", "i", "c", "e">> }

AmountTokens == {
    <<"$">>, <<"1">>, <<"2">>, <<"5">>, <<".">>, <<",">>, <<" ">>,
    kw_million,
    <<"B", "i", "l", "l", "i", "o", "n">>,
    <<"a", "p", "p", "r", "o", "x">>,
    kw_nan }

StatusTexts == {JoinWords(ws) : ws \in SeqsUpTo(StatusWords, MaxStatusWords)}

AmountTexts == {Concat(ts) : ts \in SeqsUpTo(AmountTokens, MaxAmountTokens)}

(***************************************************************************)
(* Input files                                                             *)
(***************************************************************************)
MaxRows == 2
MaxLoadRows == 1

BaseColumns == (text_cols \ {"summary"}) \cup {"Year"}

Row(case_name, product, quote, claim_type, sub_category, jurisdiction, current_status, settlement_amount, industry_sector, year) ==
    [c \in BaseColumns |->
        CASE c = "case_name"         -> case_name
          [] c = "Product/Company"   -> product
          [] c = "quote"             -> quote
          [] c = "claim_type"        -> claim_type
          [] c = "sub_category"      -> sub_category
          [] c = "jurisdiction"      -> jurisdiction
          [] c = "current_status"    -> current_status
          [] c = "settlement_amount" -> settlement_amount
          [] c = "industry_sector"   -> industry_sector
          [] c = "Year"              -> year]

\* read_csv gives one dtype to a column: a column that holds a number holds
\* no text
WellTyped(rows) ==
    \A c \in BaseColumns :
        ~(\E i, j \in DOMAIN rows : rows[i][c].t = "num" /\ rows[j][c].t = "str")

Tables(pool, n, with_summary) ==
    {[exists  |-> TRUE,
      columns |-> BaseColumns \cup (IF with_summary THEN {"summary"} ELSE {}),
      rows    |-> [i \in DOMAIN rows |->
                      IF with_summary THEN rows[i] @@ ("summary" :> NaN) ELSE rows[i]]] :
        rows \in {r \in SeqsUpTo(pool, n) : WellTyped(r)}}

MissingFile == [exists |-> FALSE, columns |-> {}, rows |-> <<>>]

txt_Ab == <<"A", "b">>
txt_P == <<"P">>
txt_Eco == <<"E", "c", "o">>
txt_Bio == <<"B", "i", "o">>
txt_Food == <<"F", "o", "o", "d">>
txt_CA == <<"C", "A">>
txt_s1 == <<"s", "1">>
txt_s2 == <<"s", "2">>
txt_15_million == <<"$", "1", ".", "5", " ", "m", "i", "l", "l", "i", "o", "n">>
txt_approx_5_million ==
    <<"a", "p", "p", "r", "o", "x", ".", " ", "5", " ", "m", "i", "l", "l", "i", "o", "n">>
txt_2000 == <<"2", ",", "0", "0", "0">>
txt_Settled == <<"S", "e", "t", "t", "l", "e", "d">>
txt_Dismissed == <<"D", "i", "s", "m", "i", "s", "s", "e", "d">>
txt_Stayed == <<"S", "t", "a", "y", "e", "d">>

\* the rows of the files the dashboard is run on
DashboardRows == {
    Row(Str(txt_Ab), Str(txt_P), Str(<<"a", ".", "B">>), Str(txt_Eco), Str(txt_s1),
        Str(txt_CA), Str(txt_Settled), Str(txt_15_million), Str(txt_Food), Num(2019)),
    Row(NaN, Str(<<"Q">>), Str(<<"a", "B">>), Str(txt_Eco), Str(txt_s2),
        NaN, Str(kw_pending), NaN, Str(txt_Food), Num(2020)),
    Row(Str(<<"B">>), NaN, NaN, Str(txt_Bio), Str(txt_s1),
        Str(txt_CA), NaN, Str(txt_2000), NaN, NaN) }

\* a file that lacks the sub_category column, which only the case explorer
\* reads
FileWithoutSubCategory ==
    LET row == CHOOSE r \in DashboardRows : r["Year"] = Num(2019)
    IN  [exists  |-> TRUE,
         columns |-> BaseColumns \ {"sub_category"},
         rows    |-> << [c \in BaseColumns \ {"sub_category"} |-> row[c]] >>]

\* the rows of the files the normalizer is run on: every combination of a
\* missing, textual or numeric case name, product, settlement and status
NormalizerRows ==
    {Row(cn, pr, NaN, NaN, NaN, NaN, cs, sa, NaN, NaN) :
        cn \in {NaN, Str(txt_Ab), Num(0)},
        pr \in {NaN, Str(txt_P)},
        sa \in {NaN, Str(txt_15_million), Str(txt_approx_5_million), Num(1200)},
        cs \in {NaN, Str(txt_Stayed), Str(txt_Dismissed)}}

\* the filtered frames the ranking is computed on: records (of which only
\* settlement_numeric is followed) without settlement, with a settlement
\* under and with one over a million.  A frame is a run of records with the
\* same settlement, long enough to fill the ranking, with a few records of
\* any kind before and after it.
MaxRunRows == 9
MaxOtherRows == 2

SettlementValues == {Zero, Normal(2, 3), Normal(15, 5)}

FilteredFrames ==
    {[columns |-> {"settlement_numeric"},
      rows    |-> [i \in DOMAIN amounts |->
                      [idx |-> i - 1, v |-> [c \in {"settlement_numeric"} |-> amounts[i]]]]] :
        amounts \in {head \o [i \in 1..k |-> same] \o tail :
                        head \in SeqsUpTo(SettlementValues, MaxOtherRows),
                        tail \in SeqsUpTo(SettlementValues, MaxOtherRows),
                        k \in 0..MaxRunRows,
                        same \in SettlementValues}}

(***************************************************************************)
(* Specifications                                                          *)
(***************************************************************************)
\* no call of the two functions is under way
InitNoCall ==
    /\ status_arg = <<>>
    /\ status_ret = "not called"
    /\ amount_arg = <<>>
    /\ amount_ret = NotCalled
    /\ top_arg = EmptyFrame
    /\ top_ret = NotRanked
    /\ again = NotNormalizedAgain

\* the script has not run yet on the file csv
InitApp ==
    /\ pc = "start"
    /\ cache = EmptyFrame
    /\ df = EmptyFrame
    /\ message = ""
    /\ session = None
    /\ widgets = NoWidgets
    /\ market = NoMarket
    /\ explorer = NoExplorer
    /\ runs = 0

CallNormalizeStatus ==
    /\ status_ret = "not called"
    /\ status_ret' = normalize_status(status_arg)
    /\ UNCHANGED <<status_arg, amount_arg, amount_ret, top_arg, top_ret, again>>
    /\ UNCHANGED appvars

CallParseSettlementAmount ==
    /\ amount_ret = NotCalled
    /\ amount_ret' = parse_settlement_amount(amount_arg)
    /\ UNCHANGED <<status_arg, status_ret, amount_arg, top_arg, top_ret, again>>
    /\ UNCHANGED appvars

\* normalize_status called on one status text
InitStatus ==
    /\ status_arg \in StatusTexts
    /\ status_ret = "not called"
    /\ amount_arg = <<>>
    /\ amount_ret = NotCalled
    /\ top_arg = EmptyFrame
    /\ top_ret = NotRanked
    /\ again = NotNormalizedAgain
    /\ csv = MissingFile
    /\ InitApp

SpecStatus == InitStatus /\ [][CallNormalizeStatus]_vars

\* parse_settlement_amount called on one settlement text
InitAmount ==
    /\ amount_arg \in AmountTexts
    /\ amount_ret = NotCalled
    /\ status_arg = <<>>
    /\ status_ret = "not called"
    /\ top_arg = EmptyFrame
    /\ top_ret = NotRanked
    /\ again = NotNormalizedAgain
    /\ csv = MissingFile
    /\ InitApp

SpecAmount == InitAmount /\ [][CallParseSettlementAmount]_vars

\* the ranking computed on the frame top_arg
CallTopSettlements ==
    /\ ~top_ret.called
    /\ top_ret' = [called |-> TRUE, frame |-> TopSettlements(top_arg)]
    /\ UNCHANGED <<status_arg, status_ret, amount_arg, amount_ret, top_arg, again>>
    /\ UNCHANGED appvars

\* the top settlements computed on one filtered frame
InitTop ==
    /\ top_arg \in FilteredFrames
    /\ top_ret = NotRanked
    /\ again = NotNormalizedAgain
    /\ status_arg = <<>>
    /\ status_ret = "not called"
    /\ amount_arg = <<>>
    /\ amount_ret = NotCalled
    /\ csv = MissingFile
    /\ InitApp

SpecTop == InitTop /\ [][CallTopSettlements]_vars

\* the statements of load_data run again, on the table load_data returned
NormalizeAgain ==
    /\ pc = "ready"
    /\ ~again.called
    /\ \E r \in Normalize(cache) :
           again' = [called |-> TRUE, exc |-> r.exc, frame |-> r.frame]
    /\ UNCHANGED <<status_arg, status_ret, amount_arg, amount_ret, top_arg, top_ret>>
    /\ UNCHANGED appvars

\* main run once on a file of raw records of every kind, or without file
InitLoad ==
    /\ InitNoCall
    /\ csv \in Tables(NormalizerRows, MaxLoadRows, TRUE)
                \cup Tables(NormalizerRows, MaxLoadRows, FALSE)
                \cup {MissingFile}
    /\ InitApp

SpecLoad == InitLoad /\ [][FirstRun \/ NormalizeAgain]_vars

\* the dashboard: main run on a file, then the user's interactions
Init ==
    /\ InitNoCall
    /\ csv \in Tables(DashboardRows, MaxRows, FALSE)
                \cup {MissingFile, FileWithoutSubCategory}
    /\ InitApp

Next ==
    \/ FirstRun
    \/ SetMarketYear
    \/ SetMarketClaim
    \/ SetMarketIndustry
    \/ TypeKeyword
    \/ SetCaseClaim
    \/ SetCaseSub
    \/ SetCaseStatus
    \/ SetCaseJurisdiction
    \/ SetCaseSort
    \/ ClickCase
    \/ ClickBack

Spec == Init /\ [][Next]_vars

(***************************************************************************)
(* Properties                                                              *)
(***************************************************************************)
StatusGroups ==
    {"Settled", "Pending", "Dismissed", "Dismissed (without prejudice)",
     "Voluntarily Dismissed", "MTD Denied", "MTD Granted", "On Appeal",
     "Class Certified", "Unknown", "Other"}

Labels(frame) == {frame.rows[i].idx : i \in DOMAIN frame.rows}

\* C1: after load_data every record's status_group is one of the eleven
\* status groups, and every column of text_cols that the file has holds a
\* text in every record: a missing value has become "", never NaN.
C1_NormalizedRecords ==
    pc = "ready" =>
        \A i \in DOMAIN cache.rows :
            /\ cache.rows[i].v["status_group"] \in StatusGroups
            /\ \A c \in text_cols \cap cache.columns : cache.rows[i].v[c].t = "str"

\* a file with the summary column, a missing case name and a numeric
\* settlement amount has been loaded
C1_Witness ==
    /\ pc = "ready"
    /\ "summary" \in cache.columns
    /\ \E i \in DOMAIN csv.rows :
           /\ csv.rows[i]["case_name"] = NaN
           /\ csv.rows[i]["summary"] = NaN
           /\ csv.rows[i]["settlement_amount"].t = "num"
           /\ cache.rows[i].v["case_name"] = Str(<<>>)
           /\ cache.rows[i].v["status_group"] = "Other"

\* the rules of the status text in the order the claim gives them: the
\* keywords a rule needs, and its category
StatusRules ==
    << [needs |-> {kw_settled},                 group |-> "Settled"],
       [needs |-> {kw_pending},                 group |-> "Pending"],
       [needs |-> {kw_dismissed, kw_without},   group |-> "Dismissed (without prejudice)"],
       [needs |-> {kw_dismissed},               group |-> "Dismissed"],
       [needs |-> {kw_voluntarily},             group |-> "Voluntarily Dismissed"],
       [needs |-> {kw_motion, kw_denied},       group |-> "MTD Denied"],
       [needs |-> {kw_motion, kw_granted},      group |-> "MTD Granted"],
       [needs |-> {kw_appeal},                  group |-> "On Appeal"],
       [needs |-> {kw_class, kw_certified},     group |-> "Class Certified"] >>

RuleMatches(i, text) == \A k \in StatusRules[i].needs : Contains(text, k)

FirstMatchingRule(text) ==
    IF \E i \in DOMAIN StatusRules : RuleMatches(i, text)
    THEN StatusRules[CHOOSE i \in DOMAIN StatusRules :
                        /\ RuleMatches(i, text)
                        /\ \A j \in 1..(i - 1) : ~RuleMatches(j, text)].group
    ELSE IF text = <<>> \/ text = kw_nan \/ Contains(text, kw_unknown) THEN "Unknown"
    ELSE "Other"

txt_Dismissed_without_prejudice ==
    JoinWords(<<txt_Dismissed, kw_without, <<"p", "r", "e", "j", "u", "d", "i", "c", "e">> >>)

txt_Stayed_pending_arbitration ==
    JoinWords(<<txt_Stayed, kw_pending,
                <<"a", "r", "b", "i", "t", "r", "a", "t", "i", "o", "n">> >>)

\* C2: normalize_status returns the category of the first rule, in the
\* claim's order, that the lower-cased text matches; so a text with "pending"
\* and without "settled" is Pending, and "Dismissed without prejudice" is
\* Dismissed (without prejudice).
C2_FirstMatchingRuleWins ==
    status_ret # "not called" =>
        /\ status_ret = FirstMatchingRule(Lower(status_arg))
        /\ (Contains(Lower(status_arg), kw_pending)
                /\ ~Contains(Lower(status_arg), kw_settled)) => status_ret = "Pending"
        /\ status_arg = txt_Dismissed_without_prejudice
                => status_ret = "Dismissed (without prejudice)"

\* normalize_status has returned Pending for "Stayed pending arbitration"
C2_Witness ==
    /\ status_arg = txt_Stayed_pending_arbitration
    /\ status_ret = "Pending"

\* C3: normalization raises no error on any record: whatever the settlement
\* and status texts of a file that has records, main gets a table back and
\* renders the tabs.
C3_NoFieldRaises ==
    (csv.exists /\ csv.rows # <<>> /\ pc # "start") => (pc = "ready" /\ message = "")

\* the numeral of the claims: the first maximal run of digits with at most
\* one decimal point, a decimal point counting only next to a digit
FirstNumeral(s) ==
    LET starts(i) == IsDigit(s[i]) \/ (s[i] = "." /\ i < Len(s) /\ IsDigit(s[i + 1]))
    IN  IF \E i \in DOMAIN s : starts(i)
        THEN LET start == CHOOSE i \in DOMAIN s :
                              starts(i) /\ \A j \in 1..(i - 1) : ~starts(j)
                 fits(k) == /\ \A j \in start..k : InDigitDotClass(s[j])
                            /\ DotCount(SubSeq(s, start, k)) <= 1
                 stop  == CHOOSE k \in start..Len(s) :
                              fits(k) /\ (k = Len(s) \/ ~fits(k + 1))
             IN  [found |-> TRUE, group |-> SubSeq(s, start, stop)]
        ELSE [found |-> FALSE, group |-> <<>>]

\* the amount the claims give a settlement text
ClaimedAmount(text) ==
    IF text = <<>> \/ text = kw_nan THEN Zero
    ELSE LET s == CleanAmount(text)
             numeral == FirstNumeral(s)
             scale == IF Contains(s, kw_billion) THEN BillionExp
                      ELSE IF Contains(s, kw_million) THEN MillionExp ELSE 0
         IN  IF numeral.found THEN TimesPow10(FloatValue(numeral.group), scale) ELSE Zero

\* C4: parse_settlement_amount returns, for every text, the non-negative
\* amount of the claim: 0 for an empty text or "nan", else the first numeral
\* of the cleaned text times 10^9 with "billion", times 10^6 with "million",
\* unscaled otherwise, and 0 when there is no numeral.
C4_AmountOfEveryText ==
    amount_ret # NotCalled => amount_ret = Returned(ClaimedAmount(amount_arg))

\* C5: the numeral parse_settlement_amount extracts never holds two decimal
\* points and is never a decimal point without a digit.
C5_NumeralIsWellFormed ==
    amount_ret # NotCalled =>
        LET match == SearchDigitDotRun(CleanAmount(amount_arg))
        IN  (amount_arg # <<>> /\ amount_arg # kw_nan /\ match.found) =>
                /\ DotCount(match.group) <= 1
                /\ \E i \in DOMAIN match.group : IsDigit(match.group[i])

\* C6: display_name is case_name when the coerced case_name is not empty and
\* Product/Company otherwise, so it is empty only if both are.
C6_DisplayName ==
    pc = "ready" =>
        \A i \in DOMAIN cache.rows :
            LET x == cache.rows[i].v
            IN  /\ x["case_name"].s # <<>> => x["display_name"] = x["case_name"]
                /\ x["case_name"].s = <<>> => x["display_name"] = x["Product/Company"]
                /\ x["display_name"].s = <<>> =>
                       (x["case_name"].s = <<>> /\ x["Product/Company"].s = <<>>)

\* a record without case name has got the product as its display name
C6_Witness ==
    /\ pc = "ready"
    /\ \E i \in DOMAIN cache.rows :
           /\ csv.rows[i]["case_name"] = NaN
           /\ cache.rows[i].v["display_name"] = Str(txt_P)

\* C7: whatever the user does, the frame df is, when a run ends, the table
\* load_data made of the file: same columns, same records, same order.
C7_CanonicalTableUntouched ==
    pc = "ready" =>
        /\ df = cache
        /\ \E r \in load_data(csv) : r.exc = "none" /\ r.frame = cache

\* after two interactions, in a run that added the settlement_display
\* column to the ranking and shows the detail view of a case
C7_Witness ==
    /\ pc = "ready"
    /\ runs = 3
    /\ "settlement_display" \in market.settlements_df.columns
    /\ widgets.case_sort = "Settlement (highest)"
    /\ explorer.view = "detail"

\* the filter statements fs in the order p
Reordered(fs, p) == [i \in DOMAIN fs |-> fs[p[i]]]

\* the predicate of one active filter on one record, as the claims give it:
\* min <= Year <= max, equality with the chosen category, the lower-cased
\* keyword a substring of the lower-cased text
Satisfies(x, f) ==
    CASE f.kind = "range"   -> InRange(x, f.col, f.lo, f.hi)
      [] f.kind = "exact"   -> x[f.col] = f.value
      [] f.kind = "keyword" -> Contains(Lower(x[f.col].s), Lower(f.value.s))

\* the records of the table that satisfy every filter of fs
Conjunction(fs) ==
    BoolIndex(cache, [r \in DOMAIN cache.rows |->
                         \A i \in DOMAIN fs : Satisfies(cache.rows[r].v, fs[i])])

\* the outcomes of the filter statements fs over the table, one per order
Outcomes(fs) ==
    {ApplyFilters(CopyFrame(cache), Reordered(fs, p)) :
        p \in IndexPermutations(Len(fs))}

OrderInvariant(fs) ==
    \A res \in Outcomes(fs) : res.exc = "none" /\ res.frame = Conjunction(fs)

\* C8: in both views, on a table that has the filtered fields, the active
\* filters give, applied in any order, exactly the records that satisfy all
\* of their predicates, and that is what the run shows.
C8_FilterOrderInvariant ==
    (pc = "ready" /\ ExplorerColumns \subseteq cache.columns) =>
        /\ OrderInvariant(MarketFilters(widgets))
        /\ OrderInvariant(ExplorerFilters(widgets))
        /\ market.filtered_df = Conjunction(MarketFilters(widgets))
        /\ explorer.exc = "none"
        /\ Labels(explorer.filtered_df) = Labels(Conjunction(ExplorerFilters(widgets)))

\* C9: while the year range filter is active the market overview keeps only
\* records whose Year lies in the range, none whose Year is missing, and,
\* with no other filter, all that lie in it.
C9_YearRangeExcludesMissing ==
    (pc = "ready" /\ widgets.market_year.some) =>
        LET lo == widgets.market_year.lo
            hi == widgets.market_year.hi
            within(x) == x["Year"].t = "num" /\ lo <= x["Year"].n /\ x["Year"].n <= hi
        IN  /\ \A i \in DOMAIN market.filtered_df.rows :
                   within(market.filtered_df.rows[i].v)
            /\ (widgets.market_claim = All /\ widgets.market_industry = All) =>
                   Labels(market.filtered_df) =
                       {cache.rows[i].idx : i \in {j \in DOMAIN cache.rows :
                                                       within(cache.rows[j].v)}}

\* the range at its default on a table with a record without Year: the
\* record is dropped, the other one is kept
C9_Witness ==
    /\ pc = "ready"
    /\ widgets = DefaultWidgets(cache)
    /\ widgets.market_year.some
    /\ \E i \in DOMAIN cache.rows : cache.rows[i].v["Year"] = NaN
    /\ Len(market.filtered_df.rows) = 1
    /\ Len(cache.rows) = 2

\* C10: with a keyword as the only filter, on a table that has the fields
\* the explorer reads, the explorer raises nothing and shows exactly the
\* records whose lower-cased quote contains the lower-cased keyword as a
\* substring.
C10_KeywordIsLiteralSubstring ==
    (/\ pc = "ready"
     /\ ExplorerColumns \subseteq cache.columns
     /\ widgets.case_keyword # <<>>
     /\ Len(ExplorerFilters(widgets)) = 1) =>
        /\ explorer.exc = "none"
        /\ Labels(explorer.filtered_df) =
               {cache.rows[i].idx :
                   i \in {j \in DOMAIN cache.rows :
                             Contains(Lower(cache.rows[j].v["quote"].s),
                                      Lower(widgets.case_keyword))}}

\* the column and the direction of each entry of "Sort by"
SortColumn(sort_by) ==
    CASE sort_by = "Year (newest)"        -> "Year"
      [] sort_by = "Year (oldest)"        -> "Year"
      [] sort_by = "Case Name (A-Z)"      -> "display_name"
      [] sort_by = "Settlement (highest)" -> "settlement_numeric"

SortAscending(sort_by) == sort_by \in {"Year (oldest)", "Case Name (A-Z)"}

\* the position of the record labelled idx in the frame
PositionOf(frame, idx) == CHOOSE i \in DOMAIN frame.rows : frame.rows[i].idx = idx

\* the frame the explorer hands to the sort: the table after its filters
ExplorerFiltered == ApplyFilters(CopyFrame(cache), ExplorerFilters(widgets)).frame

\* sorted holds the records of input, each once
IsPermutationOf(sorted, input) ==
    /\ Len(sorted.rows) = Len(input.rows)
    /\ \A i \in DOMAIN input.rows : \E j \in DOMAIN sorted.rows : sorted.rows[j] = input.rows[i]

\* no record of sorted comes before one that the key puts first
OrderedByKey(sorted, by, ascending) ==
    \A i, j \in DOMAIN sorted.rows :
        (i < j /\ ~IsNaNKey(sorted.rows[i].v, by) /\ ~IsNaNKey(sorted.rows[j].v, by)) =>
            IF ascending THEN ~KeyLess(sorted.rows[j].v, sorted.rows[i].v, by)
            ELSE ~KeyLess(sorted.rows[i].v, sorted.rows[j].v, by)

\* records with the same key are in the order they had in input
KeepsOrderOfEqualKeys(sorted, input, by) ==
    \A i, j \in DOMAIN sorted.rows :
        (i < j /\ sorted.rows[i].v[by] = sorted.rows[j].v[by]) =>
            PositionOf(input, sorted.rows[i].idx) < PositionOf(input, sorted.rows[j].idx)

\* C11: the list the explorer shows is a permutation of the filtered table,
\* ordered by the key of the chosen sort order, and two records with the same
\* key keep the relative order they had before the sort.
C11_SortIsStable ==
    (pc = "ready" /\ explorer.exc = "none") =>
        LET by == SortColumn(widgets.case_sort)
        IN  /\ IsPermutationOf(explorer.filtered_df, ExplorerFiltered)
            /\ OrderedByKey(explorer.filtered_df, by, SortAscending(widgets.case_sort))
            /\ KeepsOrderOfEqualKeys(explorer.filtered_df, ExplorerFiltered, by)

\* C12: the top-settlements ranking of a filtered table holds records of the
\* table, none with settlement_numeric = 0 and at most 10, in non-increasing
\* order of settlement_numeric, and every record left out is zero or no
\* larger than each record included.
C12_TopSettlements ==
    top_ret.called =>
        LET top == top_ret.frame.rows
            all == top_arg.rows
            amount(r) == r.v["settlement_numeric"]
            included(r) == \E i \in DOMAIN top : top[i].idx = r.idx
        IN  /\ \A i \in DOMAIN top : \E k \in DOMAIN all : all[k] = top[i]
            /\ \A i, j \in DOMAIN top : top[i].idx = top[j].idx => i = j
            /\ \A i \in DOMAIN top : amount(top[i]) # Zero
            /\ Len(top) <= 10
            /\ \A i, j \in DOMAIN top : i < j => ~NumLess(amount(top[i]), amount(top[j]))
            /\ \A k \in DOMAIN all :
                   ~included(all[k]) =>
                       \/ amount(all[k]) = Zero
                       \/ /\ Len(top) = 10
                          /\ \A i \in DOMAIN top : ~NumLess(amount(top[i]), amount(all[k]))

\* the ranking of eleven settlements, under and over a million: ten are
\* charted, one of the smaller ones is left out
C12_Witness ==
    /\ top_ret.called
    /\ Len(top_arg.rows) = 11
    /\ \A k \in DOMAIN top_arg.rows : top_arg.rows[k].v["settlement_numeric"] # Zero
    /\ Len(top_ret.frame.rows) = 10
    /\ top_ret.frame.rows[1].v["settlement_numeric"] = Normal(15, 5)
    /\ top_ret.frame.rows[10].v["settlement_numeric"] = Normal(2, 3)

RECURSIVE SumOver(_, _)
\* the sum of the counts of the groups in S
SumOver(counts, S) ==
    IF S = {} THEN 0
    ELSE LET g == CHOOSE x \in S : TRUE
         IN  counts[g] + SumOver(counts, S \ {g})

\* C13: the counts by status_group of the filtered table sum to its number
\* of records, every record's group has a count, and no group is listed
\* with a count of zero.
C13_StatusCountsSum ==
    pc = "ready" =>
        LET counts == market.status_data
            rows == market.filtered_df.rows
        IN  /\ SumOver(counts, DOMAIN counts) = Len(rows)
            /\ \A i \in DOMAIN rows : rows[i].v["status_group"] \in DOMAIN counts
            /\ \A g \in DOMAIN counts : counts[g] > 0
            /\ DOMAIN counts \subseteq StatusGroups

\* of two records with different status groups the filters keep one: one
\* group is counted, once
C13_Witness ==
    /\ pc = "ready"
    /\ Len(cache.rows) = 2
    /\ Cardinality(DistinctStatusGroups(cache)) = 2
    /\ Len(market.filtered_df.rows) = 1
    /\ Cardinality(DOMAIN market.status_data) = 1

\* C14: the normalizer run on the table it returned raises nothing on a
\* table with records and returns that table again: the same text fields,
\* display_name, settlement_numeric and status_group in every record.
C14_NormalizeIsIdempotent ==
    again.called =>
        /\ cache.rows # <<>> => again.exc = "none"
        /\ again.exc = "none" => again.frame = cache

\* a record with a missing case name and a numeric settlement amount has been
\* normalized twice
C14_Witness ==
    /\ again.called
    /\ again.exc = "none"
    /\ \E i \in DOMAIN csv.rows :
           /\ csv.rows[i]["case_name"] = NaN
           /\ csv.rows[i]["settlement_amount"].t = "num"
           /\ again.frame.rows[i].v["display_name"] = Str(txt_P)
           /\ again.frame.rows[i].v["settlement_numeric"] = Normal(12, 2)

\* C15: a run of the explorer on a table that lacks a field it filters on
\* ends in a QueryError.
C15_MisuseRaisesQueryError ==
    (pc = "ready" /\ ~(ExplorerColumns \subseteq cache.columns)) =>
        explorer.exc = "QueryError"

\* what load_data does on the file: it returns a table in every case, or
\* raises in every case (a missing file is not loaded at all)
LoadFails == ~csv.exists \/ \A r \in load_data(csv) : r.exc # "none"
LoadReturns == csv.exists /\ \A r \in load_data(csv) : r.exc = "none"

\* C16: when the file is missing or load_data raises, main shows an error
\* message and stops with neither view rendered; the views are rendered only
\* in a run where load_data returned the table they are rendered on.
C16_LoadFailureHalts ==
    pc # "start" =>
        /\ LoadFails => pc = "stopped"
        /\ pc = "stopped" =>
               /\ message # ""
               /\ market = NoMarket
               /\ explorer = NoExplorer
        /\ (market # NoMarket \/ explorer # NoExplorer) =>
               /\ pc = "ready"
               /\ message = ""
               /\ \E r \in load_data(csv) : r.exc = "none" /\ r.frame = cache
               /\ market.df = cache
        /\ LoadReturns => (pc = "ready" /\ market # NoMarket /\ explorer # NoExplorer)

\* the file exists and load_data raised on one of its records: the error is
\* on the page and the run has stopped
C16_Witness ==
    /\ pc = "stopped"
    /\ csv.exists
    /\ csv.rows # <<>>
    /\ message = "Error loading data"
    /\ market = NoMarket
    /\ explorer = NoExplorer

\* the selected case in a state: None before the first run; while it is set,
\* the run shows the detail view of the record of the canonical table with
\* that label, and no list
SelectedCaseShown ==
    /\ pc = "start" => session = None
    /\ (pc = "ready" /\ session.some) =>
           /\ explorer.view = "detail"
           /\ explorer.row \in Range(cache.rows)
           /\ explorer.row.idx = session.v
    /\ (pc = "ready" /\ ~session.some) => explorer.view # "detail"

\* the selected case in a step: it is set only from the case list, to the
\* label of a record of the filtered table on the page, and it is cleared
\* only from the detail view, the widgets being left as they are
SelectedCaseStep ==
    /\ (~session.some /\ session'.some) =>
           /\ explorer.view = "list"
           /\ session'.v \in Labels(explorer.filtered_df)
           /\ session'.v \in Labels(cache)
           /\ widgets' = widgets
    /\ (session.some /\ ~session'.some) =>
           /\ explorer.view = "detail"
           /\ widgets' = widgets
    /\ (session.some /\ session'.some) => session' = session

\* C17: selected_case_idx starts as None, is set only by the click on a case
\* of the list, to the label of a record of the filtered table, and is
\* cleared only by Back; in every run where it is set the explorer shows the
\* detail view of that record of the canonical table and not the list,
\* whatever filter, keyword or sort order has changed since.
C17_SelectedCase == [](SelectedCaseShown) /\ [][SelectedCaseStep]_vars

====
